---- MODULE Spec2Model ----
(***************************************************************************)
(* Model of the news aggregation service: the ingestion run (fetchNews),   *)
(* the document store, the query-result cache and the read handlers of     *)
(* src/controllers/newsController.js, with the triggers of src/server.js   *)
(* and src/routes/newsRoutes.js.                                           *)
(*                                                                         *)
(* Every await of a handler is a point where another handler may run, so   *)
(* each handler is cut into one action per awaited operation.              *)
(***************************************************************************)
EXTENDS Integers, Sequences, FiniteSets, TLC

(***************************************************************************)
(* Bounds of the model.                                                    *)
(***************************************************************************)
\* items in one feed response
MaxItems == 1
\* distinct article links the feeds publish
MaxLink == 3
\* invocations of fetchNews
MaxRuns == 2
\* read requests served
MaxReads == 2
\* largest page and largest limit a list request asks for
MaxPage == 2
\* items in the feed whose items lack fields
MaxFeedItems == 2
\* elements the selector of the article page matches
MaxElements == 4

\* the capacity ceiling (process.env.MAX_NEWS_LIMIT)
MAX_NEWS_LIMIT == 2

\* the time to live of a cache entry in milliseconds
\* (process.env.CACHE_DURATION_MS)
CACHE_DURATION == 2000

Links == 1..MaxLink
RunIds == 1..MaxRuns

(***************************************************************************)
(* Text: a string is a sequence of characters.  Cyrillic letters are       *)
(* written as tokens ("cy_s" is the letter es).                            *)
(***************************************************************************)
UpperChars ==
  <<"A","B","C","D","E","F","G","H","I","J","K","L","M","N","O","P","Q","R",
    "S","T","U","V","W","X","Y","Z","CY_S","CY_L","CY_U","CY_H","CY_A","CY_N",
    "CY_O","CY_P","CY_R","CY_E","CY_K","CY_M","CY_D">>

LowerChars ==
  <<"a","b","c","d","e","f","g","h","i","j","k","l","m","n","o","p","q","r",
    "s","t","u","v","w","x","y","z","cy_s","cy_l","cy_u","cy_h","cy_a","cy_n",
    "cy_o","cy_p","cy_r","cy_e","cy_k","cy_m","cy_d">>

LowerChar(c) ==
  IF \E i \in 1..Len(UpperChars) : UpperChars[i] = c
    THEN LowerChars[CHOOSE i \in 1..Len(UpperChars) : UpperChars[i] = c]
    ELSE c

\* String.prototype.toLowerCase
toLowerCase(s) == [i \in 1..Len(s) |-> LowerChar(s[i])]

\* String.prototype.includes
includes(s, sub) ==
  \E i \in 0..(Len(s) - Len(sub)) : SubSeq(s, i + 1, i + Len(sub)) = sub

Blank == {" ", "\n", "\t"}

RECURSIVE trimStart(_)
trimStart(s) ==
  IF s # <<>> /\ Head(s) \in Blank THEN trimStart(Tail(s)) ELSE s

RECURSIVE trimEnd(_)
trimEnd(s) ==
  IF s # <<>> /\ s[Len(s)] \in Blank THEN trimEnd(SubSeq(s, 1, Len(s) - 1)) ELSE s

\* String.prototype.trim
trim(s) == trimEnd(trimStart(s))

\* the position after the run of blanks that starts at i, when that run
\* ends in a newline (the match of \s*\n at i), and 0 when there is none.
\* The regular expression is greedy: the last newline of the run is taken.
RECURSIVE blankRunEnd(_, _, _)
blankRunEnd(s, i, best) ==
  IF i > Len(s) \/ s[i] \notin Blank THEN best
  ELSE blankRunEnd(s, i + 1, IF s[i] = "\n" THEN i + 1 ELSE best)

\* s.replace(/\n\s*\n/g, '\n')
RECURSIVE collapseBlankLines(_)
collapseBlankLines(s) ==
  IF s = <<>> THEN <<>>
  ELSE IF Head(s) = "\n" /\ blankRunEnd(s, 2, 0) # 0
    THEN <<"\n">> \o collapseBlankLines(SubSeq(s, blankRunEnd(s, 2, 0), Len(s)))
    ELSE <<Head(s)>> \o collapseBlankLines(Tail(s))

\* s.replace(/\n/g, ' ')
newlinesToSpaces(s) == [i \in 1..Len(s) |-> IF s[i] = "\n" THEN " " ELSE s[i]]

\* the description of a candidate
cleanDescription(s) == trim(newlinesToSpaces(collapseBlankLines(s)))

(***************************************************************************)
(* Keywords of the categorizer.                                            *)
(***************************************************************************)
KwRumor == <<"r","u","m","o","r">>
KwSluh == <<"cy_s","cy_l","cy_u","cy_h">>
KwAnnounc == <<"a","n","n","o","u","n","c">>
KwAnons == <<"cy_a","cy_n","cy_o","cy_n","cy_s">>
KwPoll == <<"p","o","l","l">>
KwOpros == <<"cy_o","cy_p","cy_r","cy_o","cy_s">>
KwRecommend == <<"r","e","c","o","m","m","e","n","d">>
KwRekomend == <<"cy_r","cy_e","cy_k","cy_o","cy_m","cy_e","cy_n","cy_d">>

\* a categorizer that gives an item without a keyword no category
categorizeNewsNoDefault(item) ==
  LET title == toLowerCase(item.title)
      content == toLowerCase(item.contentSnippet)
  IN  IF includes(title, KwRumor) \/ includes(title, KwSluh) \/ includes(content, KwRumor)
        THEN "rumors"
      ELSE IF includes(title, KwAnnounc) \/ includes(title, KwAnons) \/ includes(content, KwAnnounc)
        THEN "soon"
      ELSE IF includes(title, KwPoll) \/ includes(title, KwOpros) \/ includes(content, KwPoll)
        THEN "polls"
      ELSE IF includes(title, KwRecommend) \/ includes(title, KwRekomend) \/ includes(content, KwRecommend)
        THEN "recommendations"
      ELSE ""

\* NewsController.categorizeNews: item.title and item.contentSnippet, an
\* absent field reads as the empty string
categorizeNews(item) ==
  LET title == toLowerCase(item.title)
      content == toLowerCase(item.contentSnippet)
  IN  IF includes(title, KwRumor) \/ includes(title, KwSluh) \/ includes(content, KwRumor)
        THEN "rumors"
      ELSE IF includes(title, KwAnnounc) \/ includes(title, KwAnons) \/ includes(content, KwAnnounc)
        THEN "soon"
      ELSE IF includes(title, KwPoll) \/ includes(title, KwOpros) \/ includes(content, KwPoll)
        THEN "polls"
      ELSE IF includes(title, KwRecommend) \/ includes(title, KwRekomend) \/ includes(content, KwRecommend)
        THEN "recommendations"
      ELSE "update"

(***************************************************************************)
(* Feeds.                                                                  *)
(***************************************************************************)
UrlIgn == <<"i","g","n",".","c","o","m">>
UrlPolygon == <<"p","o","l","y","g","o","n",".","c","o","m">>

\* feedUrls after filter(Boolean): the feeds the environment configures
feedUrls == <<UrlIgn, UrlPolygon>>

Feeds == 1..Len(feedUrls)

\* getSource
getSource(url) ==
  IF includes(url, <<"i","g","n">>) THEN "ign"
  ELSE IF includes(url, <<"g","a","m","e","s","p","o","t">>) THEN "gamespot"
  ELSE IF includes(url, <<"p","o","l","y","g","o","n">>) THEN "polygon"
  ELSE IF includes(url, <<"e","u","r","o","g","a","m","e","r">>) THEN "eurogamer"
  ELSE IF includes(url, <<"p","c","g","a","m","e","r">>) THEN "pcgamer"
  ELSE IF includes(url, <<"g","a","m","e","r","a","n","t">>) THEN "gamerant"
  ELSE IF includes(url, <<"t","h","e","g","a","m","e","r">>) THEN "thegamer"
  ELSE "unknown"

Placeholder == <<"p","l","a","c","e","h","o","l","d","e","r">>
Unknown == <<"U","n","k","n","o","w","n">>

\* the text feed v gives its items
TitleOf(v) ==
  IF v = 1 THEN <<"R","u","m","o","r">>
  ELSE IF v = 2 THEN <<"P","a","t","c","h">>
  ELSE <<"N","e","w","s">>

SnippetOf(v) ==
  IF v = 1 THEN <<"D","r","a","g","o","n","\n","\n","Q">>
  ELSE IF v = 2 THEN <<" ","n","o","t","e","s">>
  ELSE <<>>

\* the item of feed v for the article with link l, as rss-parser hands it
\* over; an absent field is the empty string, and 0 for a link or a date.
\* Feed v dates its items v.
RawItem(l, v) ==
  [title |-> TitleOf(v), link |-> l, pubDate |-> IF v = 1 THEN v ELSE 0,
   isoDate |-> IF v = 1 THEN 0 ELSE v,
   contentSnippet |-> SnippetOf(v), content |-> <<"c">>,
   enclosure |-> IF v = 1 THEN <<"e">> ELSE <<>>,
   mediaContent |-> IF v = 2 THEN <<"m">> ELSE <<>>,
   newsThumbnail |-> <<>>,
   creator |-> IF v = 1 THEN <<"c","r">> ELSE <<>>,
   author |-> <<>>]

\* the items feed f may publish: every article, and one item without a link
RawItems(f) == {RawItem(l, f) : l \in Links \cup {0}}

RECURSIVE SeqsUpTo(_, _)
SeqsUpTo(S, n) ==
  IF n = 0 THEN {<<>>}
  ELSE LET shorter == SeqsUpTo(S, n - 1)
       IN  shorter \cup {Append(s, x) : s \in {t \in shorter : Len(t) = n - 1}, x \in S}

\* what the feeds may publish
FeedContents == [Feeds -> UNION {SeqsUpTo(RawItems(f), MaxItems) : f \in Feeds}]

\* a filter that asks for pubDate and does not look at isoDate
keepItemPubDateOnly(item) ==
  item.title # <<>> /\ item.link # 0 /\ item.pubDate # 0

\* the filter of fetchNews
keepItem(item) ==
  item.title # <<>> /\ item.link # 0 /\ (item.pubDate # 0 \/ item.isoDate # 0)

\* the map of fetchNews
normalize(item, url) ==
  [title |-> item.title,
   description |->
     cleanDescription(IF item.contentSnippet # <<>> THEN item.contentSnippet ELSE item.content),
   link |-> item.link,
   pubDate |-> IF item.pubDate # 0 THEN item.pubDate ELSE item.isoDate,
   image |-> IF item.enclosure # <<>> THEN item.enclosure
             ELSE IF item.mediaContent # <<>> THEN item.mediaContent
             ELSE IF item.newsThumbnail # <<>> THEN item.newsThumbnail
             ELSE Placeholder,
   author |-> IF item.creator # <<>> THEN item.creator
              ELSE IF item.author # <<>> THEN item.author
              ELSE Unknown,
   category |-> categorizeNews(item),
   source |-> getSource(url)]

RECURSIVE candidatesOf(_, _)
candidatesOf(items, url) ==
  IF items = <<>> THEN <<>>
  ELSE (IF keepItem(Head(items)) THEN <<normalize(Head(items), url)>> ELSE <<>>)
         \o candidatesOf(Tail(items), url)

(***************************************************************************)
(* Article extraction.                                                     *)
(***************************************************************************)
\* axios.get(link, { ..., timeout: 30000 })
ARTICLE_TIMEOUT == 30000

\* new RSSParser({ customFields, requestOptions }): no timeout is given, and
\* rss-parser then takes its default of 60000 ms
FEED_TIMEOUT == 60000

\* a timer that is never set
unarmed(ms) == FALSE

\* the timer of a request is set: a timeout of 0 means none
armed(ms) == ms > 0

\* ignoreTexts, shortened to one text
ignoreTexts == {<<"E","n","a","b","l","e"," ","J","S">>}

\* an element of the page as the callback of elements.each reads it: its
\* tag, element.text(), whether it or an ancestor has a class of
\* ignoreClasses, and whether it is inside a table
Element(tag, text, noise, inTable) ==
  [tag |-> tag, text |-> text, noise |-> noise, inTable |-> inTable]

\* $(element).clone().wrap('<div></div>').parent().html()
markup(el) == <<"<", el.tag, ">">> \o el.text \o <<"</", el.tag, ">">>

\* let include = ...
include(el) == ~el.noise /\ ~(el.tag = "p" /\ trim(el.text) \in ignoreTexts)

\* a callback that emits a table, heading, list or video without closing
\* the text collected before it
eachElementUnflushed(acc, el) ==
  LET text == trim(el.text)
  IN  IF text = <<>> \/ ~include(el) THEN acc
      ELSE IF el.tag = "p" /\ ~el.inTable
        THEN [acc EXCEPT !.currentText = @ \o text \o <<"\n", "\n">>]
      ELSE IF el.tag \in {"table", "h2", "h3", "ol", "ul", "video"}
        THEN [acc EXCEPT !.contentParts = Append(@, [type |-> "html", content |-> markup(el)])]
      ELSE acc

\* a callback that closes the text after every paragraph
eachElementPerParagraph(acc, el) ==
  LET text == trim(el.text)
  IN  IF text = <<>> \/ ~include(el) THEN acc
      ELSE IF el.tag = "p" /\ ~el.inTable
        THEN [acc EXCEPT !.contentParts = Append(@, [type |-> "text", content |-> text])]
      ELSE IF el.tag \in {"table", "h2", "h3", "ol", "ul", "video"}
        THEN [acc EXCEPT !.contentParts = Append(@, [type |-> "html", content |-> markup(el)])]
      ELSE acc

\* one round of the callback of elements.each on acc = the contentParts and
\* the currentText so far
eachElement(acc, el) ==
  LET text == trim(el.text)
  IN  IF text = <<>> \/ ~include(el) THEN acc
      ELSE IF el.tag = "p" /\ ~el.inTable
        THEN [acc EXCEPT !.currentText = @ \o text \o <<"\n", "\n">>]
      ELSE IF el.tag \in {"table", "h2", "h3", "ol", "ul", "video"}
        THEN [contentParts |->
                (IF acc.currentText # <<>>
                   THEN Append(acc.contentParts,
                               [type |-> "text", content |-> trim(acc.currentText)])
                   ELSE acc.contentParts)
                \o <<[type |-> "html", content |-> markup(el)]>>,
              currentText |-> <<>>]
      ELSE acc

\* elements.each
RECURSIVE each(_, _)
each(elements, acc) ==
  IF elements = <<>> THEN acc ELSE each(Tail(elements), eachElement(acc, Head(elements)))

\* a list left as it is when nothing was extracted
orNothing(contentParts) == contentParts

\* if (!contentParts.length) contentParts.push({ type: 'text', content: 'Content missing.' })
orMissing(contentParts) ==
  IF contentParts = <<>>
    THEN <<[type |-> "text", content |-> <<"Content missing.">>]>>
    ELSE contentParts

\* the content parts of a page, given what the selector of the site and the
\* fallback selector match on it
contentOf(page) ==
  LET elements == IF page.site # <<>> THEN page.site ELSE page.fallback
      walked == each(elements, [contentParts |-> <<>>, currentText |-> <<>>])
  IN  orMissing(IF walked.currentText # <<>>
                  THEN Append(walked.contentParts,
                              [type |-> "text", content |-> trim(walked.currentText)])
                  ELSE walked.contentParts)

\* the elements a page may have: paragraphs with text (one padded with
\* blanks), inside a table, of a noise class, with an ignored text, without
\* text; a heading, a heading with the ignored text, a table, a video without
\* text, and a div
Elements ==
  {Element("p", <<"a">>, FALSE, FALSE), Element("p", <<" ", "b", "\n">>, FALSE, FALSE),
   Element("p", <<"c">>, FALSE, TRUE), Element("p", <<"n">>, TRUE, FALSE),
   Element("p", <<"E","n","a","b","l","e"," ","J","S">>, FALSE, FALSE),
   Element("p", <<" ">>, FALSE, FALSE), Element("h2", <<"h">>, FALSE, FALSE),
   Element("h2", <<"E","n","a","b","l","e"," ","J","S">>, FALSE, FALSE),
   Element("table", <<"c">>, FALSE, FALSE), Element("video", <<>>, FALSE, FALSE),
   Element("div", <<"d">>, FALSE, FALSE)}

(***************************************************************************)
(* State.                                                                  *)
(***************************************************************************)
VARIABLES
  feedItems,  \* what each feed publishes: the items parser.parseURL returns
  zone,       \* the time zone of the process: local time minus UTC, in instants
  store,      \* the News collection: a set of documents
  runs,       \* the invocations of fetchNews, each with its locals
  listening,  \* the callback of app.listen has run
  cache,      \* the query-result cache: a set of entries, one per key, each
              \* with the seconds Redis leaves it and the seconds since its put
  req,        \* the read request being served, with its locals
  reads,      \* read requests begun
  ext         \* the article request being served, with its locals

vars == <<feedItems, zone, store, runs, listening, cache, req, reads, ext>>

\* what the process is given and never changes
world == <<feedItems, zone>>

\* what the read handlers own
readVars == <<cache, req, reads>>

\* the candidates a run can produce
Candidates ==
  {normalize(RawItem(l, f), feedUrls[f]) : l \in Links, f \in Feeds}

\* the unique index on link holds in st
UniqueLinks(st) == \A d, e \in st : d.link = e.link => d = e

\* an invocation that has not begun.  pc is the await the invocation is
\* suspended at; feed is the position in feedUrls; idx the position in
\* newsItems; oldest the link of the document findOne().sort() returned (0:
\* null, -1: a document removed since); purge the state of the detached
\* redisClient.keys(...).then(...) chain and keys what it was answered;
\* caller is who awaits the invocation.
\* History, read by the properties only: failed, the feeds whose parse
\* threw; before, the collection when the loop reached the candidate at idx;
\* seen, the cache entries that existed when the purge asked for the keys.
IdleRun ==
  [pc |-> "idle", caller |-> "", feed |-> 0, newsItems |-> <<>>, failed |-> {}, idx |-> 0,
   currentCount |-> 0, oldest |-> 0, before |-> {}, purge |-> "none",
   keys |-> {}, seen |-> {}]

\* the parameters of a read request: req.query and the region of req.ip.  An
\* absent parameter is the empty string, and 0 for a date; q is the search text
Params(page, limit, category, date, from, to, isEU, q) ==
  [page |-> page, limit |-> limit, category |-> category, date |-> date,
   from |-> from, to |-> to, isEU |-> isEU, q |-> q]

NoParams == Params(0, 0, "", 0, 0, 0, FALSE, <<>>)

\* a response: the status, and the body { success, data, pagination }
Response(status, success, data, current, total, hasMore) ==
  [status |-> status, success |-> success, data |-> data,
   pagination |-> [current |-> current, total |-> total, hasMore |-> hasMore]]

NoResponse == Response(0, FALSE, <<>>, 0, 0, FALSE)

\* no read request is being served.  pc is the await the handler is
\* suspended at; news and total are its locals; resp is what it answered and
\* fromCache whether that was a cached payload.  History, read by the
\* properties only: servedOutdated, the payload answered from the cache was
\* not an answer the collection gave at that moment; outdatedAtBegin, the
\* cache held such a payload under the request's key when the request came in.
IdleReq ==
  [pc |-> "idle", kind |-> "", params |-> NoParams, news |-> <<>>, total |-> 0,
   resp |-> NoResponse, fromCache |-> FALSE, servedOutdated |-> FALSE,
   outdatedAtBegin |-> FALSE]

\* no article request is being served.  pc is where parseArticle is; link
\* and page are its link and the html it was given; gets counts the calls of
\* axios.get, errors those of next(error); status and content are what it
\* answered (status 0: nothing)
IdleExt ==
  [pc |-> "idle", link |-> <<>>, page |-> [site |-> <<>>, fallback |-> <<>>],
   gets |-> 0, errors |-> 0, status |-> 0, content |-> <<>>]

\* the invocation is between its call and its return or throw
Active(r) == runs[r].pc \notin {"idle", "returned", "thrown"}

\* the collections a start may find: at most the ceiling of documents earlier
\* runs stored, no link twice.  Links are interchangeable, so the stored
\* links are taken to be the first ones.
InitStores ==
  {st \in SUBSET Candidates :
     /\ Cardinality(st) <= MAX_NEWS_LIMIT
     /\ UniqueLinks(st)
     /\ {d.link : d \in st} = 1..Cardinality(st)}

\* the service with no invocation of fetchNews and no request in progress,
\* on a host that keeps UTC
Quiet(started) ==
  /\ feedItems \in {c \in FeedContents : \A f \in Feeds : c[f] \in SeqsUpTo(RawItems(f), MaxItems)}
  /\ zone = 0
  /\ store \in InitStores
  /\ runs = [r \in RunIds |-> IdleRun]
  /\ listening = started
  /\ cache = {}
  /\ req = IdleReq
  /\ reads = 0
  /\ ext = IdleExt

\* the process before app.listen has called back
Init == Quiet(FALSE)

\* the process once the fetch of the app.listen callback has settled
Listening == Quiet(TRUE)

(***************************************************************************)
(* Queries and cache keys.                                                 *)
(***************************************************************************)
\* the length of a day in instants
TicksPerDay == 2

\* new Date(date) for a date-only string: the midnight of that day in UTC
utcMidnight(date) == date * TicksPerDay

\* setHours(0,0,0,0): the midnight of the local day the instant t falls in
localMidnight(t) == ((t + zone) \div TicksPerDay) * TicksPerDay - zone

\* const start = new Date(date); start.setHours(0,0,0,0)
dayStart(date) == localMidnight(utcMidnight(date))
\* const end = new Date(date); end.setHours(23,59,59,999)
dayEnd(date) == localMidnight(utcMidnight(date)) + TicksPerDay - 1

NoBound == -1

\* a filter on the collection: category "" and a bound NoBound do not
\* restrict; nin are the excluded sources; text is matched against title and
\* description
Query(category, gte, lte, nin, text) ==
  [category |-> category, gte |-> gte, lte |-> lte, nin |-> nin, text |-> text]

RegionLocked == {"polygon", "gamerant", "thegamer"}

\* the query of getLatestNews
listQuery(p) ==
  Query(p.category,
        IF p.date # 0 THEN dayStart(p.date) ELSE IF p.from # 0 THEN p.from ELSE NoBound,
        IF p.date # 0 THEN dayEnd(p.date) ELSE IF p.to # 0 THEN p.to ELSE NoBound,
        IF p.isEU THEN {} ELSE RegionLocked,
        <<>>)

\* the query of searchNews
searchQuery(p) == Query("", NoBound, NoBound, {}, p.q)

\* the query of getNewsByDate
dateQuery(p) == Query("", dayStart(p.date), dayEnd(p.date), {}, <<>>)

\* { $regex: q, $options: 'i' } on a field, for a q without special characters
regexMatch(field, q) == includes(toLowerCase(field), toLowerCase(q))

matches(d, query) ==
  /\ query.category # "" => d.category = query.category
  /\ query.gte # NoBound => d.pubDate >= query.gte
  /\ query.lte # NoBound => d.pubDate <= query.lte
  /\ d.source \notin query.nin
  /\ query.text # <<>> => regexMatch(d.title, query.text) \/ regexMatch(d.description, query.text)

\* the orders a find may return the documents of S in
Orders(S) ==
  {s \in [1..Cardinality(S) -> S] : \A i, j \in 1..Cardinality(S) : i # j => s[i] # s[j]}

\* sort({ pubDate: -1 }): documents of one date come in any order
sortedDesc(S) ==
  {s \in Orders(S) : \A i, j \in 1..Len(s) : i < j => s[i].pubDate >= s[j].pubDate}

\* a skip that starts one document late
skipLimitLate(s, n, m) ==
  SubSeq(s, n + 2, IF n + m + 1 < Len(s) THEN n + m + 1 ELSE Len(s))

\* skip(n).limit(m)
skipLimit(s, n, m) ==
  SubSeq(s, n + 1, IF n + m < Len(s) THEN n + m ELSE Len(s))

\* what the find of a read handler may return
findResults(st, kind, p) ==
  IF kind = "list"
    THEN {skipLimit(s, (p.page - 1) * p.limit, p.limit) :
            s \in sortedDesc({d \in st : matches(d, listQuery(p))})}
  ELSE IF kind = "date"
    THEN sortedDesc({d \in st : matches(d, dateQuery(p))})
  ELSE Orders({d \in st : matches(d, searchQuery(p))})

\* a hasMore that is also true on the last full page
hasMoreInclusive(page, limit, total) == page * limit <= total

\* hasMore: page*limit < total
hasMore(page, limit, total) == page * limit < total

\* the payloads a read handler computes from the collection st
answers(st, kind, p) ==
  IF kind = "list"
    THEN LET total == Cardinality({d \in st : matches(d, listQuery(p))})
         IN  {Response(200, TRUE, news, p.page, total, hasMore(p.page, p.limit, total)) :
                news \in findResults(st, kind, p)}
  ELSE {Response(200, TRUE, news, 0, 0, FALSE) : news \in findResults(st, kind, p)}

\* a key of list requests that leaves the region of the requester out
cacheKeyNoRegion(kind, p) ==
  IF kind = "list"
    THEN <<"news", ToString(p.page), ToString(p.limit),
           IF p.category # "" THEN p.category ELSE "all",
           IF p.date # 0 THEN ToString(p.date) ELSE "none",
           IF p.from # 0 THEN ToString(p.from) ELSE "none",
           IF p.to # 0 THEN ToString(p.to) ELSE "none">>
  ELSE IF kind = "date" THEN <<"date", ToString(p.date)>>
  ELSE <<"search">> \o p.q

\* the cache key of a read handler, as the parts its template joins with '_'
cacheKey(kind, p) ==
  IF kind = "list"
    THEN <<"news", ToString(p.page), ToString(p.limit),
           IF p.category # "" THEN p.category ELSE "all",
           IF p.date # 0 THEN ToString(p.date) ELSE "none",
           IF p.from # 0 THEN ToString(p.from) ELSE "none",
           IF p.to # 0 THEN ToString(p.to) ELSE "none",
           IF p.isEU THEN "eu" ELSE "us">>
  ELSE IF kind = "date" THEN <<"date", ToString(p.date)>>
  ELSE <<"search">> \o p.q

\* redisClient.keys(prefix + '_*'): the keys of the entries that begin with it
keysMatching(c, prefix) == {e.key : e \in {x \in c : x.key[1] = prefix}}

\* the read requests made
ListRequests == {Params(1, 1, "", 0, 0, 0, FALSE, <<>>)}
SearchRequests == {Params(0, 0, "", 0, 0, 0, FALSE, <<"d","r","a","g","o","n">>)}
DateRequests == {Params(0, 0, "", 1, 0, 0, FALSE, <<>>)}

\* the date, from and to of the list requests made against a fixed
\* collection: none, a date alone, a date with from/to that would exclude
\* documents of that day, and from/to alone
TimeFilters ==
  {<<0, 0, 0>>, <<1, 0, 0>>, <<1, 0, 1>>, <<1, 3, 1>>, <<0, 2, 0>>, <<0, 0, 1>>, <<0, 1, 1>>}

\* those list requests: every page and limit without a filter, and every
\* filter on the first page; from requesters inside and outside the region
ListQueries ==
  {Params(page, limit, category, t[1], t[2], t[3], isEU, <<>>) :
     page \in 1..MaxPage, limit \in 1..MaxPage, category \in {"", "rumors"},
     t \in TimeFilters, isEU \in BOOLEAN}
  \ {p \in [page : 1..MaxPage, limit : 1..MaxPage, category : {"", "rumors"},
            date : 0..1, from : 0..3, to : 0..3, isEU : BOOLEAN, q : {<<>>}] :
       /\ p.category # "" \/ p.date # 0 \/ p.from # 0 \/ p.to # 0
       /\ p.page # 1 \/ p.limit # MaxPage}

\* the time zones of the host: UTC, and half a day west and east of it
Zones == {0 - 1, 0, 1}

(***************************************************************************)
(* fetchNews.                                                              *)
(***************************************************************************)
\* the call of fetchNews up to its first await: parser.parseURL of the first
\* feed, or News.countDocuments when no feed is configured
beginRun(r, caller) ==
  /\ runs[r].pc = "idle"
  /\ \A q \in RunIds : q < r => runs[q].pc # "idle"
  /\ runs' = [runs EXCEPT ![r].pc = IF Len(feedUrls) = 0 THEN "count" ELSE "parse",
                          ![r].caller = caller,
                          ![r].feed = 1]

\* app.listen callback: the startup fetch
StartupFetch(r) ==
  /\ ~listening
  /\ listening' = TRUE
  /\ beginRun(r, "startup")
  /\ UNCHANGED <<world, ext, store, readVars>>

\* cron.schedule callback
CronTick(r) ==
  /\ beginRun(r, "cron")
  /\ UNCHANGED <<world, ext, store, listening, readVars>>

\* POST /fetch
PostFetch(r) ==
  /\ listening
  /\ beginRun(r, "route")
  /\ UNCHANGED <<world, ext, store, listening, readVars>>

\* res.json({ success: true, message: 'News fetched and saved' })
SuccessEnvelope == [status |-> 200, success |-> TRUE]

\* nothing is sent
NoAnswer == [status |-> 0, success |-> FALSE]

\* what POST /fetch has sent for the invocation it awaits: the success
\* envelope when fetchNews returned; when it threw, the catch of the route
\* evaluates logger.error with no logger in scope, which throws before
\* anything is sent
routeAnswer(run) ==
  IF run.caller = "route" /\ run.pc = "returned" THEN SuccessEnvelope ELSE NoAnswer

\* a loop over feedUrls that a failing feed ends
afterFeedAbort(run, ok, items) ==
  LET url == feedUrls[run.feed]
      got == IF ok /\ items # <<>> THEN candidatesOf(items, url) ELSE <<>>
  IN  [run EXCEPT !.newsItems = run.newsItems \o got,
                  !.failed = IF ok THEN run.failed ELSE run.failed \cup {run.feed},
                  !.feed = IF ok THEN run.feed + 1 ELSE run.feed,
                  !.pc = IF ~ok \/ run.feed = Len(feedUrls) THEN "count" ELSE "parse"]

\* the body of the loop over feedUrls for the feed at run.feed, whose
\* parser.parseURL threw (~ok) or returned a feed with these items: the catch
\* logs, an empty feed is skipped, and the loop goes on with the next feed
afterFeed(run, ok, items) ==
  LET url == feedUrls[run.feed]
      got == IF ok /\ items # <<>> THEN candidatesOf(items, url) ELSE <<>>
  IN  [run EXCEPT !.newsItems = run.newsItems \o got,
                  !.failed = IF ok THEN run.failed ELSE run.failed \cup {run.feed},
                  !.feed = run.feed + 1,
                  !.pc = IF run.feed = Len(feedUrls) THEN "count" ELSE "parse"]

\* one iteration of the loop over feedUrls: await parser.parseURL(url)
FetchFeed(r) ==
  /\ runs[r].pc = "parse"
  /\ \E ok \in BOOLEAN :
       runs' = [runs EXCEPT ![r] =
                  afterFeed(runs[r], ok, IF ok THEN feedItems[runs[r].feed] ELSE <<>>)]
  /\ UNCHANGED <<world, ext, store, listening, readVars>>

\* await parser.parseURL(url) rejects because the timeout has passed
FeedTimeout(r) ==
  /\ runs[r].pc = "parse"
  /\ armed(FEED_TIMEOUT)
  /\ runs' = [runs EXCEPT ![r] = afterFeed(runs[r], FALSE, <<>>)]
  /\ UNCHANGED <<world, ext, store, listening, readVars>>

\* the ceiling test taken one document too late
atCeilingLate(cnt) == cnt > MAX_NEWS_LIMIT

\* if (currentCount >= MAX_NEWS_LIMIT)
atCeiling(cnt) == cnt >= MAX_NEWS_LIMIT

\* the head of the loop over newsItems, reached with position idx, the
\* tracked count cnt and the collection st: the await the run stops at next.
\* After the last candidate the purge is started and newsItems returned.
loopHead(run, idx, cnt, st) ==
  IF idx > Len(run.newsItems)
    THEN [run EXCEPT !.pc = "returned", !.idx = idx, !.currentCount = cnt,
                     !.oldest = 0, !.before = {}, !.purge = "keys"]
  ELSE [run EXCEPT !.pc = IF atCeiling(cnt) THEN "findOldest" ELSE "findLink",
                   !.idx = idx, !.currentCount = cnt, !.oldest = 0, !.before = st]

\* let currentCount = await News.countDocuments()
CountDocuments(r) ==
  /\ runs[r].pc = "count"
  /\ runs' = [runs EXCEPT ![r] = loopHead(runs[r], 1, Cardinality(store), store)]
  /\ UNCHANGED <<world, ext, store, listening, readVars>>

\* the documents News.findOne().sort({ pubDate: 1 }) may return
oldestOf(st) == {d \in st : \A e \in st : d.pubDate <= e.pubDate}

\* const oldest = await News.findOne().sort({ pubDate: 1 }).exec()
FindOldest(r) ==
  /\ runs[r].pc = "findOldest"
  /\ IF store = {}
       THEN runs' = [runs EXCEPT ![r].pc = "findLink"]
       ELSE \E d \in oldestOf(store) :
              runs' = [runs EXCEPT ![r].pc = "deleteOldest", ![r].oldest = d.link]
  /\ UNCHANGED <<world, ext, store, listening, readVars>>

\* the documents deleteOne({ _id: oldest._id }) removes: the document the
\* reference names, when it is still stored
deleteById(st, ref) == {d \in st : d.link = ref}

\* await News.deleteOne({ _id: oldest._id }).  A reference another run holds
\* to the removed document names no document from now on.
DeleteOldest(r) ==
  /\ runs[r].pc = "deleteOldest"
  /\ LET gone == deleteById(store, runs[r].oldest)
     IN  /\ store' = store \ gone
         /\ cache' = cache
         /\ runs' = [q \in RunIds |->
                       IF q = r THEN [runs[q] EXCEPT !.pc = "findLink", !.oldest = 0]
                       ELSE IF gone # {} /\ runs[q].oldest = runs[r].oldest
                         THEN [runs[q] EXCEPT !.oldest = -1]
                       ELSE runs[q]]
  /\ UNCHANGED <<world, ext, listening, req, reads>>

\* const existing = await News.findOne({ link: item.link }).exec()
FindLink(r) ==
  /\ runs[r].pc = "findLink"
  /\ LET item == runs[r].newsItems[runs[r].idx]
     IN  runs' = [runs EXCEPT ![r].pc =
                    IF \E d \in store : d.link = item.link THEN "update" ELSE "create"]
  /\ UNCHANGED <<world, ext, store, listening, readVars>>

\* a collection without the unique index: no insert is rejected
noUniqueIndex(st, item) == FALSE

\* the unique index on link rejects the insert of item
duplicateKey(st, item) == \E d \in st : d.link = item.link

\* await News.create(item); currentCount++
Create(r) ==
  /\ runs[r].pc = "create"
  /\ LET run == runs[r]
         item == run.newsItems[run.idx]
     IN  IF duplicateKey(store, item)
           THEN /\ runs' = [runs EXCEPT ![r].pc = "thrown", ![r].before = {}]
                /\ UNCHANGED <<store, cache>>
           ELSE /\ store' = store \cup {item}
                /\ cache' = cache
                /\ runs' = [runs EXCEPT ![r] = loopHead(run, run.idx + 1, run.currentCount + 1, store')]
  /\ UNCHANGED <<world, ext, listening, req, reads>>

\* the collection after updateOne({ link: item.link }, { $set: item }): one
\* document with the link, when there is one, takes every field of item
updateOne(st, item) ==
  IF \E d \in st : d.link = item.link
    THEN LET d == CHOOSE d \in st : d.link = item.link
         IN  (st \ {d}) \cup {item}
    ELSE st

\* await News.updateOne(...); currentCount++
Update(r) ==
  /\ runs[r].pc = "update"
  /\ LET run == runs[r]
         item == run.newsItems[run.idx]
     IN  /\ store' = updateOne(store, item)
         /\ cache' = cache
         /\ runs' = [runs EXCEPT ![r] = loopHead(run, run.idx + 1, run.currentCount + 1, store')]
  /\ UNCHANGED <<world, ext, listening, req, reads>>

\* an awaited News operation of the run rejects: nothing catches it inside
\* fetchNews, which throws to its caller
StorageFails(r) ==
  /\ runs[r].pc \in {"count", "findOldest", "deleteOldest", "findLink", "create", "update"}
  /\ runs' = [runs EXCEPT ![r].pc = "thrown", ![r].oldest = 0, ![r].before = {}]
  /\ UNCHANGED <<world, ext, store, listening, readVars>>

\* the key command of the detached purge is answered: the keys 'news_*'
PurgeKeys(r) ==
  /\ runs[r].purge = "keys"
  /\ runs' = [runs EXCEPT ![r].purge = "del",
                          ![r].keys = keysMatching(cache, "news"),
                          ![r].seen = cache]
  /\ UNCHANGED <<world, ext, store, listening, readVars>>

\* keys.forEach(key => redisClient.del(key))
PurgeDel(r) ==
  /\ runs[r].purge = "del"
  /\ cache' = {e \in cache : e.key \notin runs[r].keys}
  /\ runs' = [runs EXCEPT ![r].purge = "done", ![r].keys = {}, ![r].seen = {}]
  /\ UNCHANGED <<world, ext, store, listening, req, reads>>

(***************************************************************************)
(* The read handlers.                                                      *)
(***************************************************************************)
\* a handler is entered: the request is read and the cache is asked
beginRead(kind, params) ==
  /\ listening
  /\ req.pc \in {"idle", "done"}
  /\ reads < MaxReads
  /\ reads' = reads + 1
  /\ req' = [IdleReq EXCEPT !.pc = "get", !.kind = kind, !.params = params,
                            !.outdatedAtBegin =
                              \E e \in cache : /\ e.key = cacheKey(kind, params)
                                               /\ e.value \notin answers(store, kind, params)]
  /\ UNCHANGED <<world, ext, store, runs, listening, cache>>

\* GET /latest
GetLatestNews == \E p \in ListRequests : beginRead("list", p)

\* GET /latest with any of the queries
LatestAny == \E p \in ListQueries : beginRead("list", p)

\* GET /search
SearchNews == \E p \in SearchRequests : beginRead("search", p)

\* GET /latest-by-date
GetNewsByDate == \E p \in DateRequests : beginRead("date", p)

\* the handler answers and ends
respond(resp, fromCache, servedOutdated) ==
  [req EXCEPT !.pc = "done", !.resp = resp, !.fromCache = fromCache,
              !.servedOutdated = servedOutdated, !.news = <<>>, !.total = 0]

\* SET key value EX seconds: the entry as Redis holds it after the put, with
\* CACHE_DURATION / 1000 seconds left.  age, the seconds since the put, is
\* history read by the properties only.
Entry(key, value) ==
  [key |-> key, value |-> value, left |-> CACHE_DURATION \div 1000, age |-> 0]

\* a get that starts the time to live of the entry anew
CacheGetRefreshing ==
  /\ req.pc = "get"
  /\ LET key == cacheKey(req.kind, req.params)
     IN  IF \E e \in cache : e.key = key
           THEN LET e == CHOOSE e \in cache : e.key = key
                IN  /\ req' = respond(e.value, TRUE,
                                      e.value \notin answers(store, req.kind, req.params))
                    /\ cache' = (cache \ {e})
                                  \cup {[e EXCEPT !.left = CACHE_DURATION \div 1000]}
           ELSE /\ req' = [req EXCEPT !.pc = "find"]
                /\ cache' = cache
  /\ UNCHANGED <<world, ext, store, runs, listening, reads>>

\* let response = await getAsync(cacheKey); if (response) return res.json(...)
CacheGet ==
  /\ req.pc = "get"
  /\ LET key == cacheKey(req.kind, req.params)
     IN  IF \E e \in cache : e.key = key
           THEN LET e == CHOOSE e \in cache : e.key = key
                IN  req' = respond(e.value, TRUE,
                                   e.value \notin answers(store, req.kind, req.params))
           ELSE req' = [req EXCEPT !.pc = "find"]
  /\ UNCHANGED <<world, ext, store, runs, listening, cache, reads>>

\* a find that, for a list page shorter than limit, first stores what the
\* ign feed can publish
FindUpserting ==
  /\ req.pc = "find"
  /\ \E news \in findResults(store, req.kind, req.params) :
       /\ req' = IF req.kind = "list" THEN [req EXCEPT !.pc = "count", !.news = news]
                  ELSE IF req.kind = "date" /\ news = <<>>
                    THEN respond(Response(404, FALSE, <<>>, 0, 0, FALSE), FALSE, FALSE)
                  ELSE [req EXCEPT !.pc = "set", !.news = news,
                                   !.resp = Response(200, TRUE, news, 0, 0, FALSE)]
       /\ store' = IF req.kind = "list" /\ Len(news) < req.params.limit
                     THEN store \cup {d \in Candidates :
                                        d.source = "ign" /\ \A e \in store : e.link # d.link}
                     ELSE store
  /\ UNCHANGED <<world, ext, runs, listening, cache, reads>>

\* const news = await News.find(...)...exec()
Find ==
  /\ req.pc = "find"
  /\ \E news \in findResults(store, req.kind, req.params) :
       req' = IF req.kind = "list" THEN [req EXCEPT !.pc = "count", !.news = news]
              ELSE IF req.kind = "date" /\ news = <<>>
                THEN respond(Response(404, FALSE, <<>>, 0, 0, FALSE), FALSE, FALSE)
              ELSE [req EXCEPT !.pc = "set", !.news = news,
                               !.resp = Response(200, TRUE, news, 0, 0, FALSE)]
  /\ UNCHANGED <<world, ext, store, runs, listening, cache, reads>>

\* const total = await News.countDocuments(query); response = {...}
CountQuery ==
  /\ req.pc = "count"
  /\ LET p == req.params
         total == Cardinality({d \in store : matches(d, listQuery(p))})
     IN  req' = [req EXCEPT !.pc = "set", !.total = total,
                            !.resp = Response(200, TRUE, req.news, p.page, total,
                                              hasMore(p.page, p.limit, total))]
  /\ UNCHANGED <<world, ext, store, runs, listening, cache, reads>>

\* await setAsync(cacheKey, JSON.stringify(response), 'EX', ...); res.json(response)
CacheSet ==
  /\ req.pc = "set"
  /\ LET key == cacheKey(req.kind, req.params)
     IN  cache' = {e \in cache : e.key # key} \cup {Entry(key, req.resp)}
  /\ req' = respond(req.resp, FALSE, FALSE)
  /\ UNCHANGED <<world, ext, store, runs, listening, reads>>

\* what the error middleware answers to next(new Error('Failed to ...')): a
\* failure outcome with a generic message and no data
ErrorOutcome == Response(500, FALSE, <<>>, 0, 0, FALSE)

\* getAsync or setAsync rejects: the catch of the handler logs and calls next
CacheFails ==
  /\ req.pc \in {"get", "set"}
  /\ req' = respond(ErrorOutcome, FALSE, FALSE)
  /\ UNCHANGED <<world, ext, store, runs, listening, cache, reads>>

\* a catch that answers what the handler has read so far
QueryFailsPartial ==
  /\ req.pc \in {"find", "count"}
  /\ req' = respond(Response(200, TRUE, req.news, 0, 0, FALSE), FALSE, FALSE)
  /\ UNCHANGED <<world, ext, store, runs, listening, cache, reads>>

\* News.find or News.countDocuments rejects: the same catch
QueryFails ==
  /\ req.pc \in {"find", "count"}
  /\ req' = respond(ErrorOutcome, FALSE, FALSE)
  /\ UNCHANGED <<world, ext, store, runs, listening, cache, reads>>

\* the time to live of an entry ends, with the clock left out: any entry,
\* at any time
Expire ==
  /\ \E e \in cache : cache' = cache \ {e}
  /\ UNCHANGED <<world, ext, store, runs, listening, req, reads>>

\* a second passes: Redis removes the entries whose time has run out and
\* the others have a second less
Tick ==
  /\ cache' = {[e EXCEPT !.left = @ - 1, !.age = @ + 1] : e \in {x \in cache : x.left > 1}}
  /\ UNCHANGED <<world, ext, store, runs, listening, req, reads>>

\* the elements the fallback selector may match
FallbackElements == {Element("p", <<"f">>, FALSE, FALSE), Element("p", <<>>, FALSE, FALSE)}

\* the pages an article link may lead to: what the selector of the site
\* matches, and what the fallback selector matches
Pages ==
  [site : SeqsUpTo(Elements, MaxElements), fallback : SeqsUpTo(FallbackElements, 1)]

\* GET /article: without a link 400 is answered, else the page is asked for
ParseArticle ==
  /\ ext.pc = "idle"
  /\ \E link \in {<<>>, UrlIgn} :
       ext' = IF link = <<>>
                THEN [ext EXCEPT !.pc = "done", !.status = 400]
                ELSE [ext EXCEPT !.pc = "fetching", !.link = link, !.gets = @ + 1]
  /\ UNCHANGED <<world, store, runs, listening, readVars>>

\* await axios.get(...) returns the html, one of pages; the rest of the try
\* block runs to res.json({ content: contentParts })
ArticleFetchedFrom(pages) ==
  /\ ext.pc = "fetching"
  /\ \E page \in pages :
       ext' = [ext EXCEPT !.pc = "done", !.page = page, !.status = 200,
                          !.content = contentOf(page)]
  /\ UNCHANGED <<world, store, runs, listening, readVars>>

ArticleFetched == ArticleFetchedFrom(Pages)

\* a handler that asks for the page once more before it gives up
catchRetrying(e) ==
  IF e.gets < 2 THEN [e EXCEPT !.gets = @ + 1]
  ELSE [e EXCEPT !.pc = "done", !.errors = @ + 1]

\* catch (error) { logger.error(...); next(error) }
catch(e) == [e EXCEPT !.pc = "done", !.errors = @ + 1]

\* await axios.get(...) rejects: the server refuses or answers an error
ArticleFetchFails ==
  /\ ext.pc = "fetching"
  /\ ext' = catch(ext)
  /\ UNCHANGED <<world, store, runs, listening, readVars>>

\* await axios.get(...) rejects because the timeout has passed
ArticleTimeout ==
  /\ ext.pc = "fetching"
  /\ armed(ARTICLE_TIMEOUT)
  /\ ext' = catch(ext)
  /\ UNCHANGED <<world, store, runs, listening, readVars>>

\* a step of parseArticle
ExtractStep ==
  \/ ParseArticle
  \/ ArticleFetched
  \/ ArticleFetchFails
  \/ ArticleTimeout

\* an awaited News operation of the run is answered
StorageStep(r) ==
  \/ CountDocuments(r)
  \/ FindOldest(r)
  \/ DeleteOldest(r)
  \/ FindLink(r)
  \/ Create(r)
  \/ Update(r)

\* a step of fetchNews after its call
RunStep(r) ==
  \/ FetchFeed(r)
  \/ CountDocuments(r)
  \/ FindOldest(r)
  \/ DeleteOldest(r)
  \/ FindLink(r)
  \/ Create(r)
  \/ Update(r)
  \/ StorageFails(r)

\* a step of the detached purge of a run
PurgeStep(r) ==
  \/ PurgeKeys(r)
  \/ PurgeDel(r)

\* a step of a read handler, or of the cache
ReadStep ==
  \/ GetLatestNews
  \/ SearchNews
  \/ GetNewsByDate
  \/ CacheGet
  \/ Find
  \/ CountQuery
  \/ CacheSet
  \/ CacheFails
  \/ QueryFails
  \/ Expire

Next ==
  \/ \E r \in RunIds : StartupFetch(r) \/ CronTick(r) \/ PostFetch(r)
  \/ \E r \in RunIds : RunStep(r)
  \/ \E r \in RunIds : PurgeStep(r)
  \/ ReadStep
  \/ ExtractStep
  \/ Tick

\* the whole service
Spec == Init /\ [][Next]_vars

\* the ingestion side alone: the triggers and the runs they start, with no
\* read request made
IngestNext ==
  \/ \E r \in RunIds : StartupFetch(r) \/ CronTick(r) \/ PostFetch(r)
  \/ \E r \in RunIds : RunStep(r)

IngestSpec == Init /\ [][IngestNext]_vars

\* no invocation of fetchNews is between its call and its return
NoRunActive == \A r \in RunIds : ~Active(r)

\* runs executed one after another: a trigger fires only when no run is active
SeqNext ==
  \/ \E r \in RunIds : NoRunActive /\ (StartupFetch(r) \/ CronTick(r) \/ PostFetch(r))
  \/ \E r \in RunIds : RunStep(r)

SeqSpec == Init /\ [][SeqNext]_vars

\* the listening service: one scheduled ingestion run, with its purge, and
\* the read requests
ReadNext ==
  \/ \E r \in {1} : CronTick(r)
  \/ \E r \in RunIds : RunStep(r)
  \/ \E r \in RunIds : PurgeStep(r)
  \/ ReadStep

ReadSpec == Listening /\ [][ReadNext]_vars

\* the listening service on a host in any time zone, with a collection no
\* run is changing
Settled ==
  /\ feedItems = [f \in Feeds |-> <<>>]
  /\ zone \in Zones
  /\ store \in InitStores
  /\ runs = [r \in RunIds |-> IdleRun]
  /\ listening = TRUE
  /\ cache = {}
  /\ req = IdleReq
  /\ reads = 0
  /\ ext = IdleExt

\* list requests against that collection
QueryNext ==
  \/ LatestAny
  \/ CacheGet
  \/ Find
  \/ CountQuery
  \/ CacheSet
  \/ CacheFails
  \/ QueryFails

QuerySpec == Settled /\ [][QueryNext]_vars

\* titles and snippets of feed items: with a keyword of each language, in
\* either case, and without one
Headlines ==
  {<<"P","o","l","l">>, <<"R","U","M","O","R","S">>, <<"N","e","w","s">>,
   <<"CY_A","cy_n","cy_o","cy_n","cy_s">>, <<"r","e","c","o","m","m","e","n","d","e","d">>}

Snippets ==
  {<<>>, <<"a"," ","r","u","m","o","r">>, <<"P","o","l","l","s">>,
   <<"cy_o","cy_p","cy_r","cy_o","cy_s">>, <<"A","n","n","o","u","n","c","e","d">>}

\* the items of an article with such a title and snippet
WordedItems ==
  {[RawItem(1, 1) EXCEPT !.title = t, !.contentSnippet = c] : t \in Headlines, c \in Snippets}

\* the listening service with every feed publishing one such item
Published ==
  /\ feedItems \in [Feeds -> {<<item>> : item \in WordedItems}]
  /\ zone = 0
  /\ store = {}
  /\ runs = [r \in RunIds |-> IdleRun]
  /\ listening = TRUE
  /\ cache = {}
  /\ req = IdleReq
  /\ reads = 0
  /\ ext = IdleExt

\* one run fetching those feeds: the map of fetchNews applies categorizeNews
CategorizeNext ==
  \/ \E r \in {1} : CronTick(r)
  \/ \E r \in RunIds : FetchFeed(r)

CategorizeSpec == Published /\ [][CategorizeNext]_vars

\* items with and without a title, a link, a pubDate and an isoDate
PartialItems ==
  {[RawItem(l, 1) EXCEPT !.title = t, !.pubDate = pd, !.isoDate = iso] :
     l \in 0..1, t \in {<<>>, TitleOf(1)}, pd \in 0..1, iso \in {0, 2}}

\* the listening service with the first feed publishing up to MaxFeedItems
\* such items and the second at most one
Partial ==
  /\ feedItems \in {c \in [Feeds -> SeqsUpTo(PartialItems, MaxFeedItems)] :
                      \A f \in Feeds : f > 1 => Len(c[f]) <= 1}
  /\ zone = 0
  /\ store = {}
  /\ runs = [r \in RunIds |-> IdleRun]
  /\ listening = TRUE
  /\ cache = {}
  /\ req = IdleReq
  /\ reads = 0
  /\ ext = IdleExt

\* one run fetching those feeds: the filter and the map of fetchNews
FilterSpec == Partial /\ [][CategorizeNext]_vars

\* the listening service with an empty collection and feeds without items
Bare ==
  /\ feedItems = [f \in Feeds |-> <<>>]
  /\ zone = 0
  /\ store = {}
  /\ runs = [r \in RunIds |-> IdleRun]
  /\ listening = TRUE
  /\ cache = {}
  /\ req = IdleReq
  /\ reads = 0
  /\ ext = IdleExt

\* article requests on that service
ExtractSpec == Bare /\ [][ExtractStep]_vars

\* the listening service with every feed publishing one article of its own
Stocked ==
  /\ feedItems = [f \in Feeds |-> <<RawItem(f, f)>>]
  /\ zone = 0
  /\ store \in InitStores
  /\ runs = [r \in RunIds |-> IdleRun]
  /\ listening = TRUE
  /\ cache = {}
  /\ req = IdleReq
  /\ reads = 0
  /\ ext = IdleExt

\* one scheduled ingestion run beside the read requests and an article
\* request whose page matches the fallback selector at most
HandlersNext ==
  \/ \E r \in {1} : CronTick(r)
  \/ \E r \in RunIds : RunStep(r)
  \/ ReadStep
  \/ ParseArticle
  \/ ArticleFetchedFrom([site : {<<>>}, fallback : SeqsUpTo(FallbackElements, 1)])
  \/ ArticleFetchFails
  \/ ArticleTimeout

HandlersSpec == Stocked /\ [][HandlersNext]_vars

\* one scheduled ingestion run and an article request, with remote servers
\* that answer, fail or stay silent, and a storage that answers
RemoteNext ==
  \/ \E r \in {1} : CronTick(r)
  \/ \E r \in RunIds : FetchFeed(r)
  \/ \E r \in RunIds : FeedTimeout(r)
  \/ \E r \in RunIds : StorageStep(r)
  \/ ParseArticle
  \/ ArticleFetchedFrom([site : {<<>>}, fallback : SeqsUpTo(FallbackElements, 1)])
  \/ ArticleFetchFails
  \/ ArticleTimeout

\* the timers run out and storage answers; nothing makes a remote server answer
RemoteSpec ==
  /\ Stocked
  /\ [][RemoteNext]_vars
  /\ \A r \in RunIds : WF_vars(FeedTimeout(r)) /\ WF_vars(StorageStep(r))
  /\ WF_vars(ArticleTimeout)

\* the read requests on a collection no run changes, with a cache that
\* works and a storage that may fail
OutageNext ==
  \/ GetLatestNews
  \/ SearchNews
  \/ GetNewsByDate
  \/ CacheGet
  \/ Find
  \/ CountQuery
  \/ CacheSet
  \/ QueryFails

OutageSpec == Settled /\ [][OutageNext]_vars

\* list requests by category: none, one the feeds are sorted into, and the
\* word 'all' given as the category; every page and limit, from requesters
\* inside and outside the region
KeyQueries ==
  {Params(page, limit, category, 0, 0, 0, isEU, <<>>) :
     page \in 1..MaxPage, limit \in 1..MaxPage, category \in {"", "rumors", "all"},
     isEU \in BOOLEAN}

\* GET /latest with one of these queries
LatestByCategory == \E p \in KeyQueries : beginRead("list", p)

\* these list requests on a collection no run changes, with a cache and a
\* storage that work
KeyNext ==
  \/ LatestByCategory
  \/ CacheGet
  \/ Find
  \/ CountQuery
  \/ CacheSet

KeySpec == Settled /\ [][KeyNext]_vars

\* a collection at the ceiling: two documents the polygon feed gave
StoredAtStart ==
  {normalize(RawItem(l, 2), feedUrls[2]) : l \in 1..MAX_NEWS_LIMIT}

\* the listening service with that collection, before a scheduled run
Full ==
  /\ feedItems \in {c \in FeedContents : \A f \in Feeds : c[f] \in SeqsUpTo(RawItems(f), MaxItems)}
  /\ zone = 0
  /\ store = StoredAtStart
  /\ runs = [r \in RunIds |-> IdleRun]
  /\ listening = TRUE
  /\ cache = {}
  /\ req = IdleReq
  /\ reads = 0
  /\ ext = IdleExt

\* one scheduled run, alone, with a storage that answers
SingleRunNext ==
  \/ \E r \in {1} : CronTick(r)
  \/ \E r \in {1} : FetchFeed(r)
  \/ \E r \in {1} : StorageStep(r)

SingleRunSpec == Full /\ [][SingleRunNext]_vars

\* the listening service with a clock: one scheduled run with its purge
\* beside list requests, with a storage and a cache that answer
TtlNext ==
  \/ \E r \in {1} : CronTick(r)
  \/ \E r \in {1} : FetchFeed(r)
  \/ \E r \in {1} : StorageStep(r)
  \/ \E r \in {1} : PurgeStep(r)
  \/ GetLatestNews
  \/ CacheGet
  \/ Find
  \/ CountQuery
  \/ CacheSet
  \/ Tick

TtlSpec == Listening /\ [][TtlNext]_vars

\* POST /fetch requests and the invocations of fetchNews they await, with
\* feeds and a storage that answer, fail or time out
RouteNext ==
  \/ \E r \in RunIds : PostFetch(r)
  \/ \E r \in RunIds : RunStep(r)
  \/ \E r \in RunIds : FeedTimeout(r)

\* every awaited call of an invocation settles: it is answered, rejected or
\* timed out
RouteSpec ==
  /\ Stocked
  /\ [][RouteNext]_vars
  /\ \A r \in RunIds : WF_vars(RunStep(r) \/ FeedTimeout(r))

(***************************************************************************)
(* Properties of ingestion.                                                *)
(***************************************************************************)
\* the invocations of fetchNews that are between their first and last step
ActiveRuns == {r \in RunIds : Active(r)}

\* C1: at most one ingestion run is in progress at any moment, whatever
\* starts the runs (the start-up fetch, the cron tick, POST /fetch)
SingleFlight == Cardinality(ActiveRuns) <= 1

\* C2: while ingestion runs are executed one after another, the number of
\* stored documents is never above the ceiling
CeilingHeldInSequence == Cardinality(store) <= MAX_NEWS_LIMIT

\* a run alone found the collection at the ceiling for its first candidate,
\* has removed the oldest document and is about to insert the candidate
EvictedAtCeiling ==
  \E r \in RunIds :
    /\ runs[r].pc = "create"
    /\ runs[r].idx = 1
    /\ Cardinality(runs[r].before) = MAX_NEWS_LIMIT
    /\ Cardinality(store) = MAX_NEWS_LIMIT - 1

\* C3: however the steps of two ingestion runs interleave, no state holds
\* more stored documents than the ceiling
CeilingHeldInterleaved == Cardinality(store) \in 0..MAX_NEWS_LIMIT

\* the candidate run r is at
itemOf(r) == runs[r].newsItems[runs[r].idx]

\* this step is the create or updateOne of run r returning: the candidate
\* has been processed and the loop moves on
Processed(r) ==
  /\ runs[r].pc \in {"create", "update"}
  /\ runs'[r].idx = runs[r].idx + 1

\* the documents of st stored under a link
withLink(st, link) == {d \in st : d.link = link}

\* C4: a candidate with a link that is not stored, reached by the loop while
\* the store holds exactly the ceiling, is processed by deleting one document
\* of smallest pubDate and inserting the candidate: the store holds the
\* ceiling again, the candidate included
EvictOldestThenInsert ==
  [][\A r \in RunIds :
       ( /\ Processed(r)
         /\ Cardinality(runs[r].before) = MAX_NEWS_LIMIT
         /\ withLink(runs[r].before, itemOf(r).link) = {} )
       => \E d \in oldestOf(runs[r].before) :
            store' = (runs[r].before \ {d}) \cup {itemOf(r)}]_vars

\* a candidate of the same link was processed before the one run r is at:
\* earlier in the same run, or in a run that has returned
IngestedBefore(r) ==
  \/ \E j \in 1..(runs[r].idx - 1) : runs[r].newsItems[j].link = itemOf(r).link
  \/ \E q \in RunIds \ {r} :
       /\ runs[q].pc = "returned"
       /\ \E j \in 1..Len(runs[q].newsItems) : runs[q].newsItems[j].link = itemOf(r).link

\* C5: once the second of two candidates with the same link is processed,
\* exactly one document is stored under the link and every field of it is
\* the second candidate's
SecondCandidateWins ==
  [][\A r \in RunIds :
       (Processed(r) /\ IngestedBefore(r))
       => withLink(store', itemOf(r).link) = {itemOf(r)}]_vars

\* C6: no two stored documents share a link, also while ingestion runs
\* interleave, and a step adds a document only under a link that no stored
\* document has at that moment
LinkUnique ==
  /\ [](UniqueLinks(store))
  /\ [][Cardinality(store') > Cardinality(store)
         => \A d \in store' \ store : withLink(store, d.link) = {}]_vars

\* a run found no document with its candidate's link, another run has
\* stored one since, and the create of the first is about to be refused
CreateRace ==
  \E r \in RunIds :
    /\ runs[r].pc = "create"
    /\ withLink(runs[r].before, itemOf(r).link) = {}
    /\ withLink(store, itemOf(r).link) # {}
    /\ itemOf(r) \notin store

(***************************************************************************)
(* Properties of the cache.                                                *)
(***************************************************************************)
\* C7: a read request that comes in after an ingestion write is never
\* answered from the cache with a payload that predates the write, that is,
\* a payload the collection no longer gives
NoOutdatedHit ==
  ~( /\ req.pc = "done"
     /\ req.fromCache
     /\ req.outdatedAtBegin
     /\ req.servedOutdated )

\* C8: when the invalidation of a run has finished, none of the query-result
\* entries that were cached when it started is left, whichever endpoint (list,
\* by-date, search) stored it
InvalidationRemovesAll ==
  [][\A r \in RunIds :
       (runs[r].purge = "del" /\ runs'[r].purge = "done")
       => cache' \cap runs[r].seen = {}]_vars

\* C9: a run that has ended after processing at least one candidate has
\* started the invalidation of the cache, also when it ended because a later
\* candidate failed
WritingRunInvalidates ==
  \A r \in RunIds :
    (runs[r].pc \in {"returned", "thrown"} /\ runs[r].idx > 1)
    => runs[r].purge # "none"

\* the source the candidates of feed f carry
sourceOf(f) == getSource(feedUrls[f])

\* C10: a run that has left the loop over the feeds has fetched every
\* configured feed, whichever of them failed, and holds no candidate of a feed
\* whose fetch or parse failed
FailedFeedContributesNothing ==
  \A r \in RunIds :
    runs[r].pc \notin {"idle", "parse"}
    => /\ runs[r].feed = Len(feedUrls) + 1
       /\ \A f \in runs[r].failed :
            \A i \in 1..Len(runs[r].newsItems) :
              runs[r].newsItems[i].source # sourceOf(f)

\* the first feed failed although it had an item to give, and the run went
\* on to take a candidate from a later feed
LaterFeedStillFetched ==
  \E r \in RunIds :
    /\ runs[r].pc \notin {"idle", "parse"}
    /\ 1 \in runs[r].failed
    /\ candidatesOf(feedItems[1], feedUrls[1]) # <<>>
    /\ runs[r].newsItems # <<>>

(***************************************************************************)
(* Properties of the failure handling.                                     *)
(***************************************************************************)
\* C11: a failure to evict, insert or update a candidate that other
\* candidates follow does not end the run
ItemFailureDoesNotStopRun ==
  [][\A r \in RunIds :
       ( /\ runs[r].pc \in {"findOldest", "deleteOldest", "create", "update"}
         /\ runs[r].idx < Len(runs[r].newsItems) )
       => runs'[r].pc # "thrown"]_vars

\* C12: no ingestion run ends by throwing to its caller, whichever feed or
\* storage operation failed
RunNeverThrows == \A r \in RunIds : runs[r].pc # "thrown"

\* C13: when the run POST /fetch started is over, with or without candidates
\* that failed to persist, the request has been answered with the success
\* envelope
PostFetchAnswersSuccess ==
  \A r \in RunIds :
    ( /\ runs[r].caller = "route"
      /\ \/ runs[r].pc = "returned"
         \/ runs[r].pc = "thrown" /\ runs[r].idx >= 1 )
    => routeAnswer(runs[r]) = SuccessEnvelope

\* C14: a get or put of the cache that fails during a list read does not
\* make the request end with the failure outcome
CacheFailureDegrades ==
  [][(CacheFails /\ req.kind = "list") => req'.resp # ErrorOutcome]_vars

\* C19: a search request is never answered from the cache, and what it is
\* answered is what the collection gives at that moment
SearchReflectsStore ==
  (req.pc = "done" /\ req.kind = "search" /\ req.resp.success)
  => (~req.fromCache /\ ~req.servedOutdated)

(***************************************************************************)
(* Properties of the list requests.                                        *)
(***************************************************************************)

\* the list request has been answered with a payload computed from storage
AnsweredFromStorage ==
  /\ req.pc = "done"
  /\ req.kind = "list"
  /\ req.resp.success
  /\ ~req.fromCache

\* the documents of the collection the filter of a list request lets through
matching(p) == {d \in store : matches(d, listQuery(p))}

\* C15: a list response computed from storage has hasMore true exactly when
\* page x limit is below the number of documents that match the filter,
\* reports that number as total, and carries at most limit documents
PaginationCorrect ==
  AnsweredFromStorage =>
    LET p == req.params
        total == Cardinality(matching(p))
    IN  /\ req.resp.pagination.hasMore = (p.page * p.limit < total)
        /\ req.resp.pagination.total = total
        /\ Len(req.resp.data) <= p.limit

\* C15 witness: a full page answered from storage with more documents behind it
MoreBehindFullPage ==
  /\ AnsweredFromStorage
  /\ req.resp.pagination.hasMore
  /\ Len(req.resp.data) = req.params.limit

\* the documents at positions (page-1) x limit + 1 .. page x limit of s
pageOf(s, page, limit) ==
  LET first == (page - 1) * limit
      n == Cardinality({k \in (first + 1)..(page * limit) : k <= Len(s)})
  IN  [i \in 1..n |-> s[first + i]]

\* the orders of the documents of S with no document before a later one
newestFirst(S) ==
  {s \in Orders(S) : \A i \in 1..(Cardinality(S) - 1) : s[i + 1].pubDate <= s[i].pubDate}

\* C16: on a miss the find of a list request gives the documents at
\* positions (page-1) x limit + 1 .. page x limit of the matching documents,
\* newest first; the response carries them and is put in the cache under the
\* key of the request
MissReadsPageAndCaches ==
  [][/\ (Find /\ req.kind = "list")
        => \E s \in newestFirst(matching(req.params)) :
             req'.news = pageOf(s, req.params.page, req.params.limit)
     /\ (CacheSet /\ req.kind = "list")
        => /\ req'.resp.data = req.news
           /\ Entry(cacheKey("list", req.params), req'.resp) \in cache']_vars

\* C16 witness: the second page of two matching documents was read on a
\* miss and is now in the cache
SecondPageCached ==
  /\ AnsweredFromStorage
  /\ req.params.page = 2
  /\ Len(req.resp.data) = 1
  /\ Cardinality(matching(req.params)) = 2
  /\ Entry(cacheKey("list", req.params), req.resp) \in cache

\* the day of a date in UTC, and in the time zone of the host
utcDay(date) == [gte |-> date * TicksPerDay, lte |-> date * TicksPerDay + TicksPerDay - 1]
hostDay(date) ==
  [gte |-> date * TicksPerDay - zone, lte |-> date * TicksPerDay + TicksPerDay - 1 - zone]

\* C17: the filter of a list request with a date is the first to the last
\* instant of that day, whatever from and to are; without a date, from and
\* to bound the range each when present
DateTakesPrecedence ==
  (req.kind = "list" /\ req.pc = "find") =>
    LET p == req.params
        q == listQuery(p)
    IN  IF p.date # 0
          THEN [gte |-> q.gte, lte |-> q.lte] \in {utcDay(p.date), hostDay(p.date)}
          ELSE /\ q.gte = (IF p.from # 0 THEN p.from ELSE NoBound)
               /\ q.lte = (IF p.to # 0 THEN p.to ELSE NoBound)

\* C18: a list response to a requester outside the region carries no
\* document of a source kept to the region
NoLockedSourceOutsideRegion ==
  (req.pc = "done" /\ req.kind = "list" /\ req.resp.success /\ ~req.params.isEU)
  => \A i \in 1..Len(req.resp.data) : req.resp.data[i].source \notin RegionLocked

\* C18 witness: a requester outside the region is answered while the cache
\* holds, for the same query from inside the region, a payload with a
\* document of such a source
AnsweredBesideRegionPayload ==
  /\ req.pc = "done"
  /\ req.kind = "list"
  /\ req.resp.success
  /\ ~req.params.isEU
  /\ \E e \in cache :
       /\ e.key = cacheKey("list", [req.params EXCEPT !.isEU = TRUE])
       /\ \E i \in 1..Len(e.value.data) : e.value.data[i].source \in RegionLocked

(***************************************************************************)
(* Properties of the categorisation.                                       *)
(***************************************************************************)

\* the first category, in the order rumors, soon, polls, recommendations,
\* with a keyword of either language in the text; "" when there is none
keywordCategory(text) ==
  LET t == toLowerCase(text)
  IN  IF includes(t, KwRumor) \/ includes(t, KwSluh) THEN "rumors"
      ELSE IF includes(t, KwAnnounc) \/ includes(t, KwAnons) THEN "soon"
      ELSE IF includes(t, KwPoll) \/ includes(t, KwOpros) THEN "polls"
      ELSE IF includes(t, KwRecommend) \/ includes(t, KwRekomend) THEN "recommendations"
      ELSE ""

\* the category of the title, else that of the description, else update
referenceCategory(title, description) ==
  IF keywordCategory(title) # "" THEN keywordCategory(title)
  ELSE IF keywordCategory(description) # "" THEN keywordCategory(description)
  ELSE "update"

\* C20: the category fetchNews gives a candidate is the first category with a
\* keyword in its title, else the first with a keyword in its description,
\* else update
CategoryIsReference ==
  \A r \in RunIds : \A i \in 1..Len(runs[r].newsItems) :
    LET item == runs[r].newsItems[i]
    IN  item.category = referenceCategory(item.title, item.description)

\* the categories of the News schema
Categories == {"rumors", "recommendations", "polls", "soon", "update"}

\* C21: every candidate has one of the five categories, and a candidate
\* with no keyword in its title and none in its description has update
CategoryDefaultsToUpdate ==
  \A r \in RunIds : \A i \in 1..Len(runs[r].newsItems) :
    LET item == runs[r].newsItems[i]
    IN  /\ item.category \in Categories
        /\ (keywordCategory(item.title) = "" /\ keywordCategory(item.description) = "")
           => item.category = "update"

\* C21 witness: a candidate without a keyword in title and description
CandidateWithoutKeyword ==
  \E r \in RunIds : \E i \in 1..Len(runs[r].newsItems) :
    /\ keywordCategory(runs[r].newsItems[i].title) = ""
    /\ keywordCategory(runs[r].newsItems[i].description) = ""

(***************************************************************************)
(* Properties of the filter.                                               *)
(***************************************************************************)

\* the item has a title, a link, and a date in one of the two fields
complete(item) ==
  /\ Len(item.title) > 0
  /\ item.link \in Links
  /\ ~(item.pubDate = 0 /\ item.isoDate = 0)

\* the links and dates of the complete items of a feed, in feed order
RECURSIVE completeOf(_)
completeOf(items) ==
  IF Len(items) = 0 THEN <<>>
  ELSE completeOf(SubSeq(items, 1, Len(items) - 1)) \o
         (IF complete(items[Len(items)])
            THEN <<[link |-> items[Len(items)].link, title |-> items[Len(items)].title]>>
            ELSE <<>>)

\* C22: a feed that parses adds to the candidates of the run exactly its
\* items with a title, a link and a date, in order; it is not counted as
\* failed and the run goes on
FilterKeepsCompleteItems ==
  [][\A r \in RunIds :
       ( /\ runs[r].pc = "parse"
         /\ runs'[r].feed = runs[r].feed + 1
         /\ runs'[r].failed = runs[r].failed )
       => LET old == Len(runs[r].newsItems)
              new == runs'[r].newsItems
              kept == completeOf(feedItems[runs[r].feed])
          IN  /\ SubSeq(new, 1, old) = runs[r].newsItems
              /\ Len(new) = old + Len(kept)
              /\ \A i \in 1..Len(kept) :
                   /\ new[old + i].link = kept[i].link
                   /\ new[old + i].title = kept[i].title
              /\ runs'[r].pc \in {"parse", "count"}]_vars

\* C22 witness: the first feed published a complete and an incomplete item,
\* parsed, and the run holds one candidate of it
IncompleteItemDropped ==
  \E r \in RunIds :
    /\ runs[r].feed = 2
    /\ 1 \notin runs[r].failed
    /\ Len(feedItems[1]) = 2
    /\ Len(runs[r].newsItems) = 1

(***************************************************************************)
(* Properties of the article extraction.                                   *)
(***************************************************************************)

\* the article request was answered with content parts
ContentAnswered == ext.pc = "done" /\ ext.status = 200

\* the elements the callback was called with: those of the selector of the
\* site, or of the fallback selector when that matched none
matched == IF ext.page.site # <<>> THEN ext.page.site ELSE ext.page.fallback

\* the callback skips the element: no text, a noise class, an ignored text
skipped(el) == trim(el.text) = <<>> \/ ~include(el)

\* C23: content parts answered are never an empty list, and when no element
\* was matched or every matched element was skipped they are the one text
\* part 'Content missing.'
ExtractionNeverEmpty ==
  ContentAnswered =>
    /\ Len(ext.content) >= 1
    /\ (\A i \in 1..Len(matched) : skipped(matched[i]))
       => ext.content = <<[type |-> "text", content |-> <<"Content missing.">>]>>

\* C23 witness: elements were matched, all were skipped, and the placeholder
\* was answered
AllSkippedAnswered ==
  /\ ContentAnswered
  /\ Len(matched) >= 2
  /\ \A i \in 1..Len(matched) : skipped(matched[i])
  /\ ext.content[1].content = <<"Content missing.">>

\* C24: an article request whose fetch failed asked for the page once,
\* answered no content and called next(error) once
FetchFailureSurfacesOnce ==
  /\ ext.gets <= 1
  /\ ext.errors <= 1
  /\ ext.errors = 1 => (ext.pc = "done" /\ ext.status = 0 /\ ext.content = <<>>)

\* C24 witness: the fetch of an article request failed
FetchFailed == ext.pc = "done" /\ ext.errors = 1 /\ ext.gets = 1

\* the matched elements that are not skipped and are paragraphs outside a
\* table, or tables, headings, lists, videos
RECURSIVE blockElements(_)
blockElements(els) ==
  IF Len(els) = 0 THEN <<>>
  ELSE LET el == els[Len(els)]
           rest == blockElements(SubSeq(els, 1, Len(els) - 1))
       IN  IF ~skipped(el) /\ ( \/ el.tag = "p" /\ ~el.inTable
                                \/ el.tag \in {"table", "h2", "h3", "ol", "ul", "video"} )
             THEN Append(rest, el)
             ELSE rest

\* the trimmed texts of the paragraphs b[i..j], joined by a blank line
RECURSIVE joined(_, _, _)
joined(b, i, j) ==
  IF i = j THEN trim(b[i].text)
  ELSE joined(b, i, j - 1) \o <<"\n", "\n">> \o trim(b[j].text)

\* the parts of b[i..]: an html part for an element that is no paragraph,
\* and a text part for a paragraph that begins a run, with the whole run
RECURSIVE blocksFrom(_, _)
blocksFrom(b, i) ==
  IF i > Len(b) THEN <<>>
  ELSE IF b[i].tag # "p"
    THEN <<[type |-> "html", content |-> markup(b[i])]>> \o blocksFrom(b, i + 1)
  ELSE IF i > 1 /\ b[i - 1].tag = "p"
    THEN blocksFrom(b, i + 1)
  ELSE LET last == CHOOSE j \in i..Len(b) :
                     /\ \A k \in i..j : b[k].tag = "p"
                     /\ j < Len(b) => b[j + 1].tag # "p"
       IN  <<[type |-> "text", content |-> joined(b, i, last)]>> \o blocksFrom(b, i + 1)

\* C30: the content parts are, in document order, one text part for every
\* maximal run of included paragraphs outside tables, with their trimmed
\* texts joined by a blank line, and one html part for every included
\* table, heading, list or video
BlocksFollowDocument ==
  (ContentAnswered /\ blockElements(matched) # <<>>)
  => ext.content = blocksFrom(blockElements(matched), 1)

\* C30 witness: two paragraphs, a heading and a paragraph gave a text part,
\* an html part and a text part
RunInterrupted ==
  /\ ContentAnswered
  /\ Len(ext.content) = 3
  /\ ext.content[1].type = "text"
  /\ ext.content[2].type = "html"
  /\ ext.content[3].type = "text"
  /\ Len(blockElements(matched)) = 4

(***************************************************************************)
(* Properties of the frame of the handlers.                                *)
(***************************************************************************)

\* C25: a step of a read handler or of parseArticle (a step that changes
\* the state of the read request, of the cache or of the article request)
\* leaves the collection as it is, and a step that changes the collection
\* is taken by an invocation of fetchNews that is in progress
OnlyRunsWrite ==
  [][/\ (req' # req \/ reads' # reads \/ cache' # cache \/ ext' # ext) => store' = store
     /\ store' # store => \E r \in RunIds : Active(r) /\ runs'[r] # runs[r]]_vars

\* C25 witness: a read request and an article request were answered from a
\* collection with documents
ReadAndExtractAnswered ==
  /\ req.pc = "done"
  /\ req.resp.success
  /\ Len(req.resp.data) > 0
  /\ ext.pc = "done"
  /\ ext.status = 200

DeletionOnlyAtCeiling ==
  [][(\E d \in store : \A e \in store' : e.link # d.link)
       => Cardinality(store) >= MAX_NEWS_LIMIT]_vars

\* C29: within a run the tracked count goes up by one with a create and
\* stays as it is with an update
CountTracksInserts ==
  [][\A r \in RunIds :
       /\ (runs[r].pc = "create" /\ runs'[r].pc \notin {"create", "thrown"})
          => runs'[r].currentCount = runs[r].currentCount + 1
       /\ (runs[r].pc = "update" /\ runs'[r].pc \notin {"update", "thrown"})
          => runs'[r].currentCount = runs[r].currentCount]_vars

(***************************************************************************)
(* Properties of the timeouts.                                             *)
(***************************************************************************)

\* C26: an ingestion run that waits for a feed eventually returns, and an
\* article request that waits for its page is eventually answered, whether
\* or not the remote servers answer
EveryFetchEnds ==
  /\ \A r \in RunIds : (runs[r].pc = "parse") ~> (runs[r].pc = "returned")
  /\ (ext.pc = "fetching") ~> (ext.pc = "done")

\* C26 witness: a run returned after every feed failed, and the error of
\* the article fetch was handed on
AllRemotesFailed ==
  /\ \E r \in RunIds : runs[r].pc = "returned" /\ runs[r].failed = Feeds
  /\ ext.pc = "done"
  /\ ext.errors = 1

(***************************************************************************)
(* Properties of the parts of the article.                                 *)
(***************************************************************************)

\* an element that is to give no part: no text, a noise class on it or on
\* an ancestor, or a text that is one of the ignored texts, whatever its tag
boilerplate(el) ==
  trim(el.text) = <<>> \/ el.noise \/ trim(el.text) \in ignoreTexts

\* the elements of els that are not boilerplate, in order
RECURSIVE withoutBoilerplate(_)
withoutBoilerplate(els) ==
  IF els = <<>> THEN <<>>
  ELSE (IF boilerplate(Head(els)) THEN <<>> ELSE <<Head(els)>>)
         \o withoutBoilerplate(Tail(els))

\* C31: no content part comes from a matched element without text, with an
\* ignored text or of a noise class, whatever its tag: the parts answered
\* are those of the matched elements with these elements taken out
NoPartFromBoilerplate ==
  ContentAnswered =>
    ext.content = contentOf([site |-> withoutBoilerplate(matched), fallback |-> <<>>])

\* C37: no content part answered has empty content, and a text part is the
\* last part or is followed by an html part
TextPartsSeparated ==
  ContentAnswered =>
    \A i \in 1..Len(ext.content) :
      /\ ext.content[i].content # <<>>
      /\ (ext.content[i].type = "text" /\ i < Len(ext.content))
         => ext.content[i + 1].type = "html"

\* C37 witness: two paragraphs in a row and a heading gave one text part
\* followed by an html part
ParagraphsMerged ==
  /\ ContentAnswered
  /\ Len(matched) = 3
  /\ \A i \in 1..2 : matched[i].tag = "p" /\ ~skipped(matched[i]) /\ ~matched[i].inTable
  /\ Len(ext.content) = 2
  /\ ext.content[1].type = "text"
  /\ ext.content[2].type = "html"

(***************************************************************************)
(* Properties of the cache key.                                            *)
(***************************************************************************)

\* C33: list requests that differ in filter, page, limit or region class
\* have different cache keys: on a collection that does not change, the
\* entry under the key of a list request holds a payload of the query of
\* that request, and a list request answered from the cache gets a payload
\* of its own query
KeySeparatesFilters ==
  /\ \A e \in cache : \A p \in KeyQueries :
       e.key = cacheKey("list", p) => e.value \in answers(store, "list", p)
  /\ (req.pc = "done" /\ req.kind = "list" /\ req.fromCache)
       => req.resp \in answers(store, "list", req.params)

(***************************************************************************)
(* Properties of a list read beside an ingestion run.                      *)
(***************************************************************************)

\* C36: in a list response computed from storage the total covers the page
\* answered: total >= (page - 1) x limit + the number of documents in data
TotalCoversPage ==
  AnsweredFromStorage =>
    req.resp.pagination.total
      >= (req.params.page - 1) * req.params.limit + Len(req.resp.data)

(***************************************************************************)
(* Properties of eviction.                                                 *)
(***************************************************************************)

\* the links of the records the run had to choose from: those stored when
\* it began and those of its candidates
offered(run) ==
  {d.link : d \in StoredAtStart} \cup {run.newsItems[i].link : i \in 1..Len(run.newsItems)}

\* the pubDate of the record with link l: that of the last candidate with
\* the link, or of the stored document when no candidate has it
dateOf(run, l) ==
  LET at == {i \in 1..Len(run.newsItems) : run.newsItems[i].link = l}
  IN  IF at # {}
        THEN run.newsItems[CHOOSE i \in at : \A j \in at : j <= i].pubDate
        ELSE (CHOOSE d \in StoredAtStart : d.link = l).pubDate

\* C34: when a run that met no failure and ran alone has returned, the
\* collection holds as many of the records offered as the ceiling allows,
\* and no record offered that is missing from the collection is newer than
\* a document kept
NewestKept ==
  runs[1].pc = "returned" =>
    LET run == runs[1]
        missing == {l \in offered(run) : \A d \in store : d.link # l}
    IN  /\ Cardinality(store) =
             (IF Cardinality(offered(run)) < MAX_NEWS_LIMIT
                THEN Cardinality(offered(run)) ELSE MAX_NEWS_LIMIT)
        /\ \A l \in missing : \A e \in store : e.pubDate >= dateOf(run, l)

\* C35: a candidate whose create or updateOne is rejected leaves the
\* collection as it was when the loop reached that candidate
FailedCandidateLeavesStore ==
  [][\A r \in RunIds :
       (runs[r].pc \in {"create", "update"} /\ runs'[r].pc = "thrown")
         => store' = runs[r].before]_vars

(***************************************************************************)
(* Properties of the time to live.                                         *)
(***************************************************************************)

\* C32: an entry is in the cache for less than CACHE_DURATION / 1000
\* seconds after its put and nothing lengthens the time it is left; a
\* request answered from the cache is answered from such an entry, and the
\* hit leaves the entry as it is
ServedWithinTtl ==
  /\ [](\A e \in cache : /\ e.age < CACHE_DURATION \div 1000
                         /\ e.left + e.age = CACHE_DURATION \div 1000)
  /\ [][(req.pc = "get" /\ req'.pc = "done" /\ req'.fromCache)
          => /\ cache' = cache
             /\ \E e \in cache : /\ e.key = cacheKey(req.kind, req.params)
                                 /\ e.value = req'.resp
                                 /\ e.age < CACHE_DURATION \div 1000]_vars

\* C32 witness: a request was answered with an outdated payload from an
\* entry in the last second of its time to live, which is still there when
\* the purge of the run that wrote has ended
OutdatedInLastSecond ==
  /\ req.pc = "done"
  /\ req.fromCache
  /\ req.servedOutdated
  /\ runs[1].purge = "done"
  /\ \E e \in cache : /\ e.key = cacheKey(req.kind, req.params)
                      /\ e.left = 1
                      /\ e.age = CACHE_DURATION \div 1000 - 1

(***************************************************************************)
(* Properties of POST /fetch.                                              *)
(***************************************************************************)

\* C38: every POST /fetch request is eventually answered, with the success
\* envelope or with a failure outcome, also when the invocation of
\* fetchNews it awaits throws
FetchAlwaysAnswered ==
  \A r \in RunIds :
    (runs[r].caller = "route") ~> (routeAnswer(runs[r]) # NoAnswer)

====
